---- MODULE Spec2Model ----
(***************************************************************************)
(* A model of webpki's DER decoders (src/der.rs): tag/length framing,      *)
(* nested / nested_of, time_choice, parse_oid, parse_directory_string,     *)
(* parse_name and parse_alt_name.                                          *)
(*                                                                         *)
(* Bytes are naturals 0..255.  A byte buffer (untrusted::Input) is a       *)
(* sequence of bytes; a cursor (untrusted::Reader) is a record             *)
(* [inp, i] of the buffer and the number of bytes already consumed.        *)
(* A u64 is kept as a little-endian vector of base-2^21 limbs so that the  *)
(* 64-bit arithmetic of parse_oid is computed at its real width.           *)
(***************************************************************************)
EXTENDS Integers, Sequences, FiniteSets, TLC

VARIABLES
    fn,               \* the decoder that was called
    input,            \* the caller's buffer
    pos,              \* the caller's cursor: bytes of `input` consumed
    pc,               \* position inside the running decoder
    result,           \* what the call returned (kind "none" while running)
    overflow_checks,  \* the build: TRUE panics on u64 overflow, FALSE wraps
    call,             \* nested_mut / nested_of_mut: the tags, the error and the closure
    view,             \* the value-view the decoder is reading
    vpos,             \* the cursor over `view`
    stack,            \* parse_oid: the VecDeque of continuation bytes
    oid_string,       \* parse_oid: the dotted string built so far
    tm,               \* time_choice: the fields read so far
    full_name,        \* parse_name: the Name being built
    alt_names         \* parse_alt_name: the names collected so far

vars == <<fn, input, pos, pc, result, overflow_checks, call, view, vpos,
          stack, oid_string, tm, full_name, alt_names>>

(***************************************************************************)
(* Tags and characters                                                     *)
(***************************************************************************)
Tag_OID == 6
Tag_UTCTime == 23
Tag_GeneralizedTime == 24
Tag_Sequence == 48
Tag_Set == 49
Tag_PrintableString == 19

Char_0 == 48
Char_9 == 57
Char_Z == 90

BadDER == "BadDER"
BadDERTime == "BadDERTime"

(***************************************************************************)
(* u64 arithmetic on limb vectors: a number is the sequence of its digits  *)
(* in base 128^3 = 2^21, least significant first, with no leading zero.    *)
(* 2^64 = 2 * (2^21)^3, so a u64 has at most four limbs, the fourth 0 or 1.*)
(***************************************************************************)
LimbBase == 128 * 128 * 128

\* The element of a singleton: Only({F(x) : x \in {e}}) is F of the value of
\* e, a local binding evaluated once.
Only(S) == CHOOSE y \in S : TRUE

RECURSIVE BigNorm(_)
BigNorm(a) ==
    IF a = <<>> THEN <<>>
    ELSE IF a[Len(a)] = 0 THEN BigNorm(SubSeq(a, 1, Len(a) - 1))
    ELSE a

BigLimb(a, k) == IF k <= Len(a) THEN a[k] ELSE 0

BigOfNat(n) ==
    IF n = 0 THEN <<>>
    ELSE IF n < LimbBase THEN <<n>>
    ELSE <<n % LimbBase, n \div LimbBase>>

RECURSIVE BigAddRec(_, _, _, _)
BigAddRec(a, b, k, carry) ==
    IF k > Len(a) /\ k > Len(b)
    THEN (IF carry = 0 THEN <<>> ELSE <<carry>>)
    ELSE <<(BigLimb(a, k) + BigLimb(b, k) + carry) % LimbBase>>
         \o BigAddRec(a, b, k + 1, (BigLimb(a, k) + BigLimb(b, k) + carry) \div LimbBase)

BigAdd(a, b) == BigNorm(BigAddRec(a, b, 1, 0))

\* a * m for a small factor m (m < 128).
RECURSIVE BigMulSmallRec(_, _, _, _)
BigMulSmallRec(a, m, k, carry) ==
    IF k > Len(a)
    THEN (IF carry = 0 THEN <<>> ELSE <<carry>>)
    ELSE <<(a[k] * m + carry) % LimbBase>>
         \o BigMulSmallRec(a, m, k + 1, (a[k] * m + carry) \div LimbBase)

BigMulSmall(a, m) == BigNorm(BigMulSmallRec(a, m, 1, 0))

\* 128^e: e \div 3 zero limbs, then 128^(e % 3).
BigPow128(e) ==
    [k \in 1..((e \div 3) + 1) |->
        IF k <= e \div 3 THEN 0
        ELSE IF e % 3 = 0 THEN 1
        ELSE IF e % 3 = 1 THEN 128
        ELSE 128 * 128]

Fits64(a) == Len(a) <= 3 \/ (Len(a) = 4 /\ a[4] <= 1)

Wrap64(a) ==
    BigNorm([k \in 1..(IF Len(a) < 4 THEN Len(a) ELSE 4) |->
                IF k = 4 THEN a[k] % 2 ELSE a[k]])

\* 128_u64.pow(iteration), (x as u64) * y and x + y: the wrapped value and
\* whether the exact value overflowed.
Wrapped(exact) == [v |-> Wrap64(exact), ovf |-> ~Fits64(exact)]
u64_pow128(e) == Only({Wrapped(exact) : exact \in {BigPow128(e)}})
u64_mul(m, a) == Only({Wrapped(exact) : exact \in {BigMulSmall(a, m)}})
u64_add(a, b) == Only({Wrapped(exact) : exact \in {BigAdd(a, b)}})

(***************************************************************************)
(* Strings: a String is the sequence of its characters.  Decimal strings   *)
(* are built by to_string; a directory string keeps its UTF-8 bytes.       *)
(***************************************************************************)
DigitChar(d) == <<"0", "1", "2", "3", "4", "5", "6", "7", "8", "9">>[d + 1]

\* One long division of a limb vector by ten, most significant limb first:
\* the quotient's limbs (least significant first) and the remainder.
RECURSIVE BigDivMod10(_, _, _)
BigDivModCons(rest, limb) == [q |-> rest.q \o <<limb>>, r |-> rest.r]

BigDivMod10(a, k, rem) ==
    IF k = 0 THEN [q |-> <<>>, r |-> rem]
    ELSE Only({BigDivModCons(rest, (rem * LimbBase + a[k]) \div 10) :
             rest \in {BigDivMod10(a, k - 1, (rem * LimbBase + a[k]) % 10)}})

RECURSIVE BigToString(_)
BigToStringDiv(d) ==
    IF BigNorm(d.q) = <<>> THEN <<DigitChar(d.r)>>
    ELSE Only({BigToString(q) : q \in {BigNorm(d.q)}}) \o <<DigitChar(d.r)>>

BigToString(a) ==
    IF a = <<>> THEN <<"0">>
    ELSE Only({BigToStringDiv(d) : d \in {BigDivMod10(a, Len(a), 0)}})

to_string(n) == BigToString(BigOfNat(n))

(***************************************************************************)
(* The byte cursor (untrusted::Reader / untrusted::Input)                  *)
(***************************************************************************)
Reader(inp) == [inp |-> inp, i |-> 0]

at_end(r) == r.i = Len(r.inp)

peek(r, b) == r.i < Len(r.inp) /\ r.inp[r.i + 1] = b

read_byte(r) ==
    IF r.i < Len(r.inp)
    THEN [ok |-> TRUE, b |-> r.inp[r.i + 1], rd |-> [r EXCEPT !.i = @ + 1]]
    ELSE [ok |-> FALSE, b |-> 0, rd |-> r]

skip_and_get_input(r, n) ==
    IF r.i + n <= Len(r.inp)
    THEN [ok |-> TRUE, val |-> SubSeq(r.inp, r.i + 1, r.i + n),
          rd |-> [r EXCEPT !.i = @ + n]]
    ELSE [ok |-> FALSE, val |-> <<>>, rd |-> r]

(***************************************************************************)
(* Tag/length framing                                                      *)
(***************************************************************************)
Framed(ok, tag, val, rd) == [ok |-> ok, tag |-> tag, val |-> val, rd |-> rd]

NoLength(rd) == [ok |-> FALSE, n |-> 0, rd |-> rd]

\* 0x81 nn: one length byte, refused unless nn >= 128.
read_length_81(s) ==
    IF ~s.ok \/ s.b < 128 THEN NoLength(s.rd)
    ELSE [ok |-> TRUE, n |-> s.b, rd |-> s.rd]

\* 0x82 hh ll: two length bytes, refused unless the value is >= 256.
read_length_82_low(s, t) ==
    IF ~t.ok \/ s.b * 256 + t.b < 256 THEN NoLength(t.rd)
    ELSE [ok |-> TRUE, n |-> s.b * 256 + t.b, rd |-> t.rd]

read_length_82(s) ==
    IF ~s.ok THEN NoLength(s.rd) ELSE read_length_82_low(s, read_byte(s.rd))

\* The DER length after the tag: short form, 0x81 or 0x82; every other first
\* byte is refused.
read_length_form(l) ==
    IF ~l.ok THEN NoLength(l.rd)
    ELSE IF l.b < 128 THEN [ok |-> TRUE, n |-> l.b, rd |-> l.rd]
    ELSE IF l.b = 129 THEN read_length_81(read_byte(l.rd))
    ELSE IF l.b = 130 THEN read_length_82(read_byte(l.rd))
    ELSE NoLength(l.rd)

read_length(r) == read_length_form(read_byte(r))

get_value(tag, v) == Framed(v.ok, tag, v.val, v.rd)

after_length(tag, l) ==
    IF ~l.ok THEN Framed(FALSE, tag, <<>>, l.rd)
    ELSE get_value(tag, skip_and_get_input(l.rd, l.n))

\* The tag byte: the high-tag-number form (low five bits all set) is refused.
after_tag(t) ==
    IF ~t.ok THEN Framed(FALSE, 0, <<>>, t.rd)
    ELSE IF t.b % 32 = 31 THEN Framed(FALSE, t.b, <<>>, t.rd)
    ELSE after_length(t.b, read_length(t.rd))

\* Err(BadDER) is ok = FALSE: the only error these two return.
read_tag_and_get_value(r) == after_tag(read_byte(r))

check_tag(f, tag) ==
    IF f.ok /\ f.tag # tag THEN Framed(FALSE, f.tag, <<>>, f.rd) ELSE f

expect_tag_and_get_value(r, tag) == check_tag(read_tag_and_get_value(r), tag)

(***************************************************************************)
(* Results                                                                 *)
(***************************************************************************)
NoResult == [kind |-> "none", err |-> "", val |-> <<>>]
Ok(v) == [kind |-> "Ok", err |-> "", val |-> v]
Err(e) == [kind |-> "Err", err |-> e, val |-> <<>>]
Panic == [kind |-> "Panic", err |-> "", val |-> <<>>]

(***************************************************************************)
(* nested_mut and nested_of_mut.  The closure is any decoder that reads    *)
(* c.take bytes one at a time and then returns Ok of what it read          *)
(* (c.ret = "Ok") or Err(c.err).                                           *)
(***************************************************************************)
decoder(c, rd) ==
    IF rd.i + c.take <= Len(rd.inp)
    THEN [res |-> IF c.ret = "Ok"
                  THEN Ok(SubSeq(rd.inp, rd.i + 1, rd.i + c.take))
                  ELSE Err(c.err),
          rd |-> [rd EXCEPT !.i = @ + c.take]]
    ELSE [res |-> Err(c.err), rd |-> [rd EXCEPT !.i = Len(rd.inp)]]

\* untrusted::Input::read_all_mut: a fresh cursor over the value, the
\* closure's error as it is, and incomplete_read if bytes are left.
read_all_check(d, incomplete_read) ==
    IF d.res.kind # "Ok" THEN d.res
    ELSE IF at_end(d.rd) THEN d.res
    ELSE Err(incomplete_read)

read_all_mut(val, incomplete_read, c) ==
    read_all_check(decoder(c, Reader(val)), incomplete_read)

map_err(res, error) == IF res.kind = "Ok" THEN res ELSE Err(error)

nested_mut_framed(inner, error, c) ==
    IF ~inner.ok THEN [res |-> Err(error), rd |-> inner.rd]
    ELSE [res |-> map_err(read_all_mut(inner.val, error, c), error),
          rd |-> inner.rd]

\* nested_mut running the closure without read_all_mut's at_end test.
nested_mut_unchecked_framed(inner, error, c) ==
    IF ~inner.ok THEN [res |-> Err(error), rd |-> inner.rd]
    ELSE [res |-> map_err(decoder(c, Reader(inner.val)).res, error),
          rd |-> inner.rd]

nested_mut_unchecked(r, tag, error, c) ==
    Only({nested_mut_unchecked_framed(f, error, c) :
        f \in {expect_tag_and_get_value(r, tag)}})

nested_mut(r, tag, error, c) ==
    Only({nested_mut_framed(f, error, c) : f \in {expect_tag_and_get_value(r, tag)}})

(***************************************************************************)
(* parse_oid                                                               *)
(***************************************************************************)
\* subtotal + ((prev_value - 128) as u64) * 128_u64.pow(iteration): the
\* wrapped sum, and whether the power, the product or the sum overflowed.
u64_sum(subtotal, m, p) ==
    Only({[v |-> a.v, ovf |-> p.ovf \/ m.ovf \/ a.ovf] : a \in {u64_add(subtotal, m.v)}})

u64_product(subtotal, prev_value, p) ==
    Only({u64_sum(subtotal, m, p) : m \in {u64_mul(prev_value - 128, p.v)}})

u64_accumulate(subtotal, prev_value, iteration) ==
    Only({u64_product(subtotal, prev_value, p) : p \in {u64_pow128(iteration)}})

OrOvf(a, ovf) == [v |-> a.v, ovf |-> a.ovf \/ ovf]

\* The inner loop: pop the stack front first, the k-th byte popped weighted
\* by 128^k.  The value is the wrapped one; ovf tells whether any of the
\* three operations overflowed on the way.
RECURSIVE pop_all(_, _, _)
pop_all_step(stk, a, iteration) ==
    IF a.ovf THEN OrOvf(pop_all(Tail(stk), a.v, iteration), TRUE)
    ELSE pop_all(Tail(stk), a.v, iteration)

pop_all(stk, subtotal, iteration) ==
    IF stk = <<>> THEN [v |-> subtotal, ovf |-> FALSE]
    ELSE Only({pop_all_step(stk, a, iteration + 1) :
             a \in {u64_accumulate(subtotal, Head(stk), iteration + 1)}})

OidState(stk, str, panic) == [stack |-> stk, oid_string |-> str, panic |-> panic]

\* The first payload byte: the arcs first/40 and first%40.
oid_first(first) ==
    OidState(<<>>, to_string(first \div 40) \o <<".">> \o to_string(first % 40), FALSE)

\* A terminating byte: the arc is appended, unless the build checks overflow
\* and one happened.
oid_arc(st, r, checks) ==
    IF r.ovf /\ checks THEN [st EXCEPT !.panic = TRUE]
    ELSE OidState(<<>>, st.oid_string \o <<".">> \o BigToString(r.v), FALSE)

\* One turn of the outer loop on the byte read.
oid_byte(st, value, checks) ==
    IF value >= 128 THEN [st EXCEPT !.stack = <<value>> \o @]
    ELSE oid_arc(st, pop_all(st.stack, BigOfNat(value), 0), checks)

RECURSIVE oid_loop(_, _, _, _)
oid_loop(st, data, k, checks) ==
    IF st.panic \/ k > Len(data) THEN st
    ELSE Only({oid_loop(next, data, k + 1, checks) :
             next \in {oid_byte(st, data[k], checks)}})

oid_result(st) == IF st.panic THEN Panic ELSE Ok(st.oid_string)

\* The closure given to read_all: it reads to the end, so read_all's own
\* at_end test never fails.
oid_data(data, checks) ==
    IF data = <<>> THEN Err(BadDER)
    ELSE oid_result(oid_loop(oid_first(data[1]), data, 2, checks))

parse_oid_framed(oid, checks) ==
    [res |-> IF oid.ok THEN Only({oid_data(data, checks) : data \in {oid.val}})
             ELSE Err(BadDER),
     rd |-> oid.rd]

parse_oid(r, checks) ==
    Only({parse_oid_framed(oid, checks) : oid \in {expect_tag_and_get_value(r, Tag_OID)}})

(***************************************************************************)
(* The calendar collaborator                                               *)
(***************************************************************************)
is_leap_year(year) == year % 4 = 0 /\ (year % 100 # 0 \/ year % 400 = 0)

days_in_month(year, month) ==
    IF month \in {1, 3, 5, 7, 8, 10, 12} THEN 31
    ELSE IF month \in {4, 6, 9, 11} THEN 30
    ELSE IF is_leap_year(year) THEN 29 ELSE 28

Time(year, month, day_of_month, hours, minutes, seconds) ==
    [year |-> year, month |-> month, day_of_month |-> day_of_month,
     hours |-> hours, minutes |-> minutes, seconds |-> seconds]

time_from_ymdhms_utc(year, month, day_of_month, hours, minutes, seconds) ==
    IF /\ month \in 1..12
       /\ day_of_month \in 1..days_in_month(year, month)
       /\ hours \in 0..23
       /\ minutes \in 0..59
       /\ seconds \in 0..59
    THEN Ok(Time(year, month, day_of_month, hours, minutes, seconds))
    ELSE Err(BadDERTime)

(***************************************************************************)
(* time_choice                                                             *)
(***************************************************************************)
NoDigits(rd) == [ok |-> FALSE, v |-> 0, rd |-> rd]

\* read_digit accepting every byte from '0' up.
read_digit_of_no_upper(b) ==
    IF ~b.ok \/ b.b < Char_0 THEN NoDigits(b.rd)
    ELSE [ok |-> TRUE, v |-> b.b - Char_0, rd |-> b.rd]

read_digit_of(b) ==
    IF ~b.ok \/ b.b < Char_0 \/ b.b > Char_9 THEN NoDigits(b.rd)
    ELSE [ok |-> TRUE, v |-> b.b - Char_0, rd |-> b.rd]

\* Every failure of read_digit and read_two_digits is Err(BadDERTime).
read_digit(rd) == read_digit_of(read_byte(rd))

read_two_digits_lo(hi, lo, min, max) ==
    IF ~lo.ok \/ hi.v * 10 + lo.v < min \/ hi.v * 10 + lo.v > max
    THEN NoDigits(lo.rd)
    ELSE [ok |-> TRUE, v |-> hi.v * 10 + lo.v, rd |-> lo.rd]

read_two_digits_hi(hi, min, max) ==
    IF ~hi.ok THEN NoDigits(hi.rd)
    ELSE read_two_digits_lo(hi, read_digit(hi.rd), min, max)

read_two_digits(rd, min, max) == read_two_digits_hi(read_digit(rd), min, max)

\* UTCTime with the century rule the other way round.
year_utc_swapped(lo) ==
    IF ~lo.ok THEN lo
    ELSE [lo EXCEPT !.v = (IF lo.v >= 50 THEN 20 ELSE 19) * 100 + lo.v]

\* UTCTime: two digits, 19xx from 50 on and 20xx below.
year_utc(lo) ==
    IF ~lo.ok THEN lo
    ELSE [lo EXCEPT !.v = (IF lo.v >= 50 THEN 19 ELSE 20) * 100 + lo.v]

year_generalized_lo(hi, lo) ==
    IF ~lo.ok THEN lo ELSE [lo EXCEPT !.v = hi.v * 100 + lo.v]

\* GeneralizedTime: four digits.
year_generalized(hi) ==
    IF ~hi.ok THEN hi
    ELSE year_generalized_lo(hi, read_two_digits(hi.rd, 0, 99))

read_year(rd, is_utc_time) ==
    IF is_utc_time THEN year_utc(read_two_digits(rd, 0, 99))
    ELSE year_generalized(read_two_digits(rd, 0, 99))

(***************************************************************************)
(* parse_directory_string                                                  *)
(***************************************************************************)
Cont(b, k) == k <= Len(b) /\ b[k] \in 128..191

\* String::from_utf8's test: well-formed UTF-8, no overlong form, no
\* surrogate, nothing above U+10FFFF.
RECURSIVE utf8_valid(_, _)
utf8_valid(b, k) ==
    IF k > Len(b) THEN TRUE
    ELSE IF b[k] < 128 THEN utf8_valid(b, k + 1)
    ELSE IF b[k] \in 194..223 THEN Cont(b, k + 1) /\ utf8_valid(b, k + 2)
    ELSE IF b[k] = 224
        THEN k + 1 <= Len(b) /\ b[k + 1] \in 160..191 /\ Cont(b, k + 2)
             /\ utf8_valid(b, k + 3)
    ELSE IF b[k] = 237
        THEN k + 1 <= Len(b) /\ b[k + 1] \in 128..159 /\ Cont(b, k + 2)
             /\ utf8_valid(b, k + 3)
    ELSE IF b[k] \in 225..239
        THEN Cont(b, k + 1) /\ Cont(b, k + 2) /\ utf8_valid(b, k + 3)
    ELSE IF b[k] = 240
        THEN k + 1 <= Len(b) /\ b[k + 1] \in 144..191 /\ Cont(b, k + 2)
             /\ Cont(b, k + 3) /\ utf8_valid(b, k + 4)
    ELSE IF b[k] = 244
        THEN k + 1 <= Len(b) /\ b[k + 1] \in 128..143 /\ Cont(b, k + 2)
             /\ Cont(b, k + 3) /\ utf8_valid(b, k + 4)
    ELSE IF b[k] \in 241..243
        THEN Cont(b, k + 1) /\ Cont(b, k + 2) /\ Cont(b, k + 3)
             /\ utf8_valid(b, k + 4)
    ELSE FALSE

\* A String keeps the bytes it was made from.
from_utf8(value) == IF utf8_valid(value, 1) THEN Ok(value) ELSE Err(BadDER)

directory_string_framed(f) ==
    [res |-> IF f.ok THEN from_utf8(f.val) ELSE Err(BadDER), rd |-> f.rd]

parse_directory_string(r) ==
    Only({directory_string_framed(f) : f \in {read_tag_and_get_value(r)}})

(***************************************************************************)
(* parse_name                                                              *)
(***************************************************************************)
None == [some |-> FALSE, v |-> <<>>]
Some(v) == [some |-> TRUE, v |-> v]

Oid_common_name == <<"2", ".", "5", ".", "4", ".", "3">>
Oid_country_name == <<"2", ".", "5", ".", "4", ".", "6">>
Oid_locality_name == <<"2", ".", "5", ".", "4", ".", "7">>
Oid_state_or_province_name == <<"2", ".", "5", ".", "4", ".", "8">>
Oid_organization_name == <<"2", ".", "5", ".", "4", ".", "1", "0">>
Oid_organizational_unit_name == <<"2", ".", "5", ".", "4", ".", "1", "1">>

NoName ==
    [common_name |-> None, country_name |-> None, locality_name |-> None,
     state_or_province_name |-> None, organization_name |-> None,
     organizational_unit_name |-> None, extra |-> None]

\* Ok((oid, name)) if the sequence holds exactly the two elements.
one_name_value(id, name) ==
    IF name.res.kind # "Ok" THEN name.res
    ELSE IF at_end(name.rd) THEN Ok([id |-> id, name |-> name.res.val])
    ELSE Err(BadDER)

one_name_oid(oid) ==
    IF oid.res.kind # "Ok" THEN oid.res
    ELSE Only({one_name_value(oid.res.val, name) :
             name \in {parse_directory_string(oid.rd)}})

one_name_seq(seq, checks) ==
    IF ~seq.ok THEN Err(BadDER)
    ELSE Only({one_name_oid(oid) : oid \in {parse_oid(Reader(seq.val), checks)}})

one_name_set(set, checks) ==
    IF ~set.ok THEN [res |-> Err(BadDER), rd |-> set.rd]
    ELSE [res |-> Only({one_name_seq(seq, checks) :
                      seq \in {expect_tag_and_get_value(Reader(set.val), Tag_Sequence)}}),
          rd |-> set.rd]

parse_one_name(r, checks) ==
    IF peek(r, Tag_Set)
    THEN Only({one_name_set(set, checks) : set \in {read_tag_and_get_value(r)}})
    ELSE [res |-> Err(BadDER), rd |-> r]

\* The match on the OID string.
set_name(full, id, name) ==
    IF id = Oid_common_name THEN [full EXCEPT !.common_name = Some(name)]
    ELSE IF id = Oid_country_name THEN [full EXCEPT !.country_name = Some(name)]
    ELSE IF id = Oid_locality_name THEN [full EXCEPT !.locality_name = Some(name)]
    ELSE IF id = Oid_state_or_province_name
        THEN [full EXCEPT !.state_or_province_name = Some(name)]
    ELSE IF id = Oid_organization_name
        THEN [full EXCEPT !.organization_name = Some(name)]
    ELSE IF id = Oid_organizational_unit_name
        THEN [full EXCEPT !.organizational_unit_name = Some(name)]
    ELSE [full EXCEPT !.extra = Some(id)]

(***************************************************************************)
(* parse_alt_name                                                          *)
(***************************************************************************)
\* What one turn of the loop does with the element read: a failed read ends
\* the loop, a value that is not UTF-8 is the function's error, any other
\* value is pushed.
alt_element_strict(f) ==
    IF ~f.ok THEN [kind |-> "err", name |-> <<>>]
    ELSE IF from_utf8(f.val).kind # "Ok" THEN [kind |-> "err", name |-> <<>>]
    ELSE [kind |-> "push", name |-> f.val]

alt_element(f) ==
    IF ~f.ok THEN [kind |-> "end", name |-> <<>>]
    ELSE IF from_utf8(f.val).kind # "Ok" THEN [kind |-> "err", name |-> <<>>]
    ELSE [kind |-> "push", name |-> from_utf8(f.val).val]

(***************************************************************************)
(* Bounded inputs                                                          *)
(***************************************************************************)
Seqs(S, n) == UNION {[1..k -> S] : k \in 0..n}

Zeros(n) == [k \in 1..n |-> 0]

\* A value under its tag and DER length (short form, 0x81 or 0x82).
Tlv(tag, body) ==
    IF Len(body) < 128 THEN <<tag, Len(body)>> \o body
    ELSE IF Len(body) < 256 THEN <<tag, 129, Len(body)>> \o body
    ELSE <<tag, 130, Len(body) \div 256, Len(body) % 256>> \o body

Idle ==
    /\ view = <<>>
    /\ vpos = 0
    /\ stack = <<>>
    /\ oid_string = <<>>
    /\ tm = <<>>
    /\ full_name = <<>>
    /\ alt_names = <<>>

NoCall == [tag |-> 0, inner_tag |-> 0, error |-> "", take |-> 0, ret |-> "", err |-> ""]

(***************************************************************************)
(* nested_mut / nested_of_mut as called with an arbitrary closure          *)
(***************************************************************************)
MaxInputLen == 5
MaxBodyLen == 5
MaxTake == 2

NestedBytes == {Tag_Sequence, 2, 0, 1}

NestedInputs ==
    Seqs(NestedBytes, MaxInputLen)
    \cup {Tlv(Tag_Sequence, Zeros(n)) \o t : n \in {128, 256}, t \in {<<>>, <<0>>}}
    \cup {<<Tag_Sequence, 129, 2, 0, 0>>, <<Tag_Sequence, 130, 0, 2, 0, 0>>,
          <<Tag_Sequence, 128>>, <<31, 0>>}

NestedOfInputs ==
    {Tlv(Tag_Sequence, b) \o t : b \in Seqs({2, 0, 1}, MaxBodyLen), t \in {<<>>, <<0>>}}
    \cup Seqs(NestedBytes, 2)

Calls ==
    [tag : {Tag_Sequence}, inner_tag : {2}, error : {BadDER, BadDERTime},
     take : 0..MaxTake, ret : {"Ok", "Err"}, err : {BadDER}]
    \cup [tag : {Tag_Sequence}, inner_tag : {2}, error : {BadDERTime},
          take : {128, 256}, ret : {"Ok"}, err : {BadDER}]

InitNested ==
    /\ fn \in {"nested_mut", "nested_of_mut"}
    /\ input \in (IF fn = "nested_mut" THEN NestedInputs ELSE NestedOfInputs)
    /\ call \in Calls
    /\ (call.take > MaxTake => fn = "nested_mut" /\ Len(input) > MaxInputLen)
    /\ pos = 0
    /\ pc = "start"
    /\ result = NoResult
    /\ overflow_checks = TRUE
    /\ Idle

NestedMutReturn(r) ==
    /\ result' = r.res
    /\ pos' = r.rd.i
    /\ pc' = "done"

NestedMutCall ==
    /\ fn = "nested_mut"
    /\ pc = "start"
    /\ \E r \in {nested_mut([inp |-> input, i |-> pos], call.tag, call.error, call)} :
            NestedMutReturn(r)
    /\ UNCHANGED <<fn, input, overflow_checks, call, view, vpos, stack,
                   oid_string, tm, full_name, alt_names>>

NestedOfFramed(o) ==
    /\ pos' = o.rd.i
    /\ IF o.ok
       THEN /\ view' = o.val
            /\ pc' = "loop"
            /\ result' = result
       ELSE /\ view' = view
            /\ pc' = "done"
            /\ result' = Err(call.error)

\* nested_of_mut: the outer nested_mut frames the outer value ...
NestedOfOuter ==
    /\ fn = "nested_of_mut"
    /\ pc = "start"
    /\ \E o \in {expect_tag_and_get_value([inp |-> input, i |-> pos], call.tag)} :
            NestedOfFramed(o)
    /\ UNCHANGED <<fn, input, overflow_checks, call, vpos, stack, oid_string,
                   tm, full_name, alt_names>>

NestedOfElement(n) ==
    /\ vpos' = n.rd.i
    /\ IF n.res.kind # "Ok"
       THEN pc' = "done" /\ result' = Err(call.error)
       ELSE /\ result' = result
            /\ pc' = IF at_end(n.rd) THEN "outer_end" ELSE "loop"

\* ... one turn of its loop decodes one inner element and tests at_end ...
NestedOfIter ==
    /\ fn = "nested_of_mut"
    /\ pc = "loop"
    /\ \E n \in {nested_mut([inp |-> view, i |-> vpos], call.inner_tag,
                           call.error, call)} :
            NestedOfElement(n)
    /\ UNCHANGED <<fn, input, pos, overflow_checks, call, view, stack,
                   oid_string, tm, full_name, alt_names>>

\* ... and the outer read_all_mut checks that the outer value was used up.
NestedOfFinish ==
    /\ fn = "nested_of_mut"
    /\ pc = "outer_end"
    /\ result' = IF at_end([inp |-> view, i |-> vpos]) THEN Ok(<<>>) ELSE Err(call.error)
    /\ pc' = "done"
    /\ UNCHANGED <<fn, input, pos, overflow_checks, call, view, vpos, stack,
                   oid_string, tm, full_name, alt_names>>

NextNested == NestedMutCall \/ NestedOfOuter \/ NestedOfIter \/ NestedOfFinish

SpecNested == InitNested /\ [][NextNested]_vars

(***************************************************************************)
(* C1                                                                      *)
(***************************************************************************)
\* The caller's buffer starts with the expected tag and a valid length whose
\* value is all there: the header's size and the value's length.
C1_Header ==
    IF Len(input) >= 2 /\ input[1] = call.tag /\ input[2] < 128
       /\ Len(input) >= 2 + input[2]
    THEN [ok |-> TRUE, h |-> 2, len |-> input[2]]
    ELSE IF Len(input) >= 3 /\ input[1] = call.tag /\ input[2] = 129
            /\ input[3] >= 128 /\ Len(input) >= 3 + input[3]
    THEN [ok |-> TRUE, h |-> 3, len |-> input[3]]
    ELSE IF Len(input) >= 4 /\ input[1] = call.tag /\ input[2] = 130
            /\ input[3] >= 1 /\ Len(input) >= 4 + input[3] * 256 + input[4]
    THEN [ok |-> TRUE, h |-> 4, len |-> input[3] * 256 + input[4]]
    ELSE [ok |-> FALSE, h |-> 0, len |-> 0]

\* C1: when the next element has the expected tag and a valid length,
\* nested_mut returns the caller's error if the closure returns Ok with bytes
\* of the value unread, and returns the closure's Ok value only if the closure
\* read the value to its exact end.
C1_ExactConsumption ==
    (fn = "nested_mut" /\ pc = "done" /\ C1_Header.ok) =>
        LET h == C1_Header
            decoderOk == call.ret = "Ok" /\ call.take <= h.len
        IN  /\ (decoderOk /\ call.take < h.len) => result = Err(call.error)
            /\ (decoderOk /\ call.take = h.len) =>
                   result = Ok(SubSeq(input, h.h + 1, h.h + h.len))
            /\ result.kind = "Ok" => (decoderOk /\ call.take = h.len)

C1_Witness ==
    /\ fn = "nested_mut"
    /\ pc = "done"
    /\ C1_Header.ok
    /\ call.ret = "Ok"
    /\ call.take + 1 = C1_Header.len
    /\ call.error = BadDERTime
    /\ result = Err(BadDERTime)

(***************************************************************************)
(* parse_oid, one byte of the payload at a time                            *)
(***************************************************************************)
MaxOidLen == 10

OidFirstBytes == {42, 255}
OidBytes == {1, 134}

OidPayloads ==
    {<<f>> \o p : f \in OidFirstBytes, p \in Seqs(OidBytes, MaxOidLen)}
    \cup {<<42, 134, 72, 134, 247, 13, 1, 1, 11>>, <<85, 4, 3>>, <<85, 4, 10>>,
          <<85, 4, 3, 128>>, <<85, 4, 128, 3>>,
          <<85, 4, 129, 128, 128, 128, 128, 128, 128, 128, 128, 128, 3>>}

OidInputs ==
    {Tlv(Tag_OID, p) : p \in OidPayloads}
    \cup {<<>>, <<Tag_OID>>, <<Tag_OID, 0>>, <<Tag_OID, 3, 85, 4>>,
          <<Tag_Sequence, 1, 42>>, <<Tag_OID, 1, 42, 0>>}

InitOid ==
    /\ fn = "parse_oid"
    /\ input \in OidInputs
    /\ overflow_checks \in BOOLEAN
    /\ call = NoCall
    /\ pos = 0
    /\ pc = "start"
    /\ result = NoResult
    /\ Idle

OidFramed(oid) ==
    /\ pos' = oid.rd.i
    /\ IF oid.ok
       THEN view' = oid.val /\ pc' = "first" /\ result' = result
       ELSE view' = view /\ pc' = "done" /\ result' = Err(BadDER)

\* let oid = expect_tag_and_get_value(input, Tag::OID)?
OidFrame ==
    /\ fn = "parse_oid"
    /\ pc = "start"
    /\ \E oid \in {expect_tag_and_get_value([inp |-> input, i |-> pos], Tag_OID)} :
            OidFramed(oid)
    /\ UNCHANGED <<fn, input, overflow_checks, call, vpos, stack, oid_string,
                   tm, full_name, alt_names>>

OidFirstRead(b) ==
    /\ vpos' = b.rd.i
    /\ IF b.ok
       THEN /\ oid_string' = oid_first(b.b).oid_string
            /\ pc' = "loop"
            /\ result' = result
       ELSE /\ oid_string' = oid_string
            /\ pc' = "done"
            /\ result' = Err(BadDER)

\* let first = data.read_byte().map_err(|_| Error::BadDER)?
OidFirst ==
    /\ fn = "parse_oid"
    /\ pc = "first"
    /\ \E b \in {read_byte([inp |-> view, i |-> vpos])} : OidFirstRead(b)
    /\ UNCHANGED <<fn, input, pos, overflow_checks, call, view, stack, tm,
                   full_name, alt_names>>

OidStepped(st) ==
    /\ stack' = st.stack
    /\ oid_string' = st.oid_string
    /\ IF st.panic
       THEN pc' = "done" /\ result' = Panic
       ELSE pc' = "loop" /\ result' = result

OidByteRead(b) ==
    /\ vpos' = b.rd.i
    /\ IF b.ok
       THEN \E st \in {oid_byte(OidState(stack, oid_string, FALSE), b.b,
                                  overflow_checks)} :
                OidStepped(st)
       ELSE /\ pc' = "end"
            /\ UNCHANGED <<stack, oid_string, result>>

\* while let Ok(value) = data.read_byte() { ... }
OidLoop ==
    /\ fn = "parse_oid"
    /\ pc = "loop"
    /\ \E b \in {read_byte([inp |-> view, i |-> vpos])} : OidByteRead(b)
    /\ UNCHANGED <<fn, input, pos, overflow_checks, call, view, tm, full_name,
                   alt_names>>

\* Ok(oid_string), and read_all's at_end test
OidFinish ==
    /\ fn = "parse_oid"
    /\ pc = "end"
    /\ result' = IF at_end([inp |-> view, i |-> vpos]) THEN Ok(oid_string) ELSE Err(BadDER)
    /\ pc' = "done"
    /\ UNCHANGED <<fn, input, pos, overflow_checks, call, view, vpos, stack,
                   oid_string, tm, full_name, alt_names>>

NextOid == OidFrame \/ OidFirst \/ OidLoop \/ OidFinish

SpecOid == InitOid /\ [][NextOid]_vars

(***************************************************************************)
(* C2, C3, C4                                                              *)
(***************************************************************************)
\* C2: parse_oid never panics, and none of 128^iteration, the product with
\* (byte - 128) and the sum into subtotal exceeds 2^64 - 1, whatever the
\* number of continuation bytes before a terminating byte.
C2_NoOverflow ==
    fn = "parse_oid" =>
        /\ result.kind # "Panic"
        /\ (pc = "loop" /\ vpos < Len(view) /\ view[vpos + 1] < 128) =>
               ~pop_all(stack, BigOfNat(view[vpos + 1]), 0).ovf

\* C3: a payload whose last byte (after the first) has its high bit set ends
\* in the middle of a varint, and parse_oid returns BadDER for it.
C3_MidVarintRejected ==
    (fn = "parse_oid" /\ pc = "done" /\ input = Tlv(Tag_OID, view)
     /\ Len(view) >= 2 /\ view[Len(view)] >= 128) =>
        result = Err(BadDER)

\* The arc of a varint c1..ck t: the sum of (ci - 128) * 128^(k-i+1), plus t,
\* as an unbounded number.
RECURSIVE C4_Sum(_, _)
C4_Sum(cs, k) ==
    IF k > Len(cs) THEN <<>>
    ELSE BigAdd(BigMulSmall(BigPow128(Len(cs) - k + 1), cs[k] - 128),
                C4_Sum(cs, k + 1))

RECURSIVE C4_Arcs(_, _, _)
C4_Arcs(payload, k, cs) ==
    IF k > Len(payload) THEN <<>>
    ELSE IF payload[k] >= 128 THEN C4_Arcs(payload, k + 1, cs \o <<payload[k]>>)
    ELSE <<BigAdd(C4_Sum(cs, 1), BigOfNat(payload[k]))>> \o C4_Arcs(payload, k + 1, <<>>)

RECURSIVE C4_Dotted(_, _)
C4_Dotted(arcs, k) ==
    IF k > Len(arcs) THEN <<>>
    ELSE <<".">> \o BigToString(arcs[k]) \o C4_Dotted(arcs, k + 1)

\* C4: an accepted payload gives first/40 and first%40, then one arc per
\* varint, continuation bytes weighted most significant first, in input order.
C4_ArcValues ==
    (fn = "parse_oid" /\ pc = "done" /\ result.kind = "Ok") =>
        result.val = to_string(view[1] \div 40) \o <<".">> \o to_string(view[1] % 40)
                     \o C4_Dotted(C4_Arcs(view, 2, <<>>), 1)

\* The arcs of C4 for every payload whose varints have at most eight
\* continuation bytes (the largest number that cannot overflow a u64).
C4_ArcValuesWithin64 ==
    (fn = "parse_oid" /\ pc = "done" /\ result.kind = "Ok"
     /\ \A a \in 1..Len(C4_Arcs(view, 2, <<>>)) : Fits64(C4_Arcs(view, 2, <<>>)[a])) =>
        result.val = to_string(view[1] \div 40) \o <<".">> \o to_string(view[1] % 40)
                     \o C4_Dotted(C4_Arcs(view, 2, <<>>), 1)

(***************************************************************************)
(* time_choice, one field at a time                                        *)
(***************************************************************************)
TwoDigits(n) == <<Char_0 + (n \div 10), Char_0 + (n % 10)>>

Prefixes(q) == {SubSeq(q, 1, k) : k \in 0..Len(q)}

TimeYY == {TwoDigits(n) : n \in {0, 1, 4, 49, 50, 99}} \cup {<<Char_0, 58>>}
TimeCentury == {TwoDigits(19), TwoDigits(20)}
TimeMM == {TwoDigits(n) : n \in {0, 1, 2, 4, 12, 13}} \cup {<<47, Char_0>>}
TimeDD == {TwoDigits(n) : n \in {0, 1, 28, 29, 30, 31, 32}}
TimeHH == {TwoDigits(n) : n \in {0, 23, 24}}
TimeMin == {TwoDigits(n) : n \in {59, 60}}
TimeSS == {TwoDigits(n) : n \in {59, 60}} \cup {<<58, Char_0>>}
TimeTail == {<<>>, <<Char_Z>>, <<122>>, <<Char_Z, Char_Z>>}

TimeRest ==
    {mo \o d \o h \o mi \o sec \o t :
        mo \in TimeMM, d \in TimeDD, h \in TimeHH, mi \in TimeMin,
        sec \in TimeSS, t \in TimeTail}

TimeInputs ==
    {Tlv(Tag_UTCTime, y \o r) : y \in TimeYY, r \in TimeRest}
    \cup {Tlv(Tag_GeneralizedTime, c \o y \o r) :
             c \in TimeCentury, y \in TimeYY, r \in TimeRest}
    \cup {Tlv(Tag_UTCTime, q) :
             q \in Prefixes(TwoDigits(99) \o TwoDigits(12) \o TwoDigits(31)
                            \o TwoDigits(23) \o TwoDigits(59) \o TwoDigits(59))}
    \cup {Tlv(tag, TwoDigits(99) \o TwoDigits(12) \o TwoDigits(31) \o TwoDigits(23)
                   \o TwoDigits(59) \o TwoDigits(59) \o <<Char_Z>>) \o t :
             tag \in {Tag_Sequence, Tag_PrintableString, Tag_UTCTime}, t \in {<<>>, <<0>>}}
    \cup {<<>>, <<Tag_UTCTime>>, <<Tag_GeneralizedTime, 3, Char_0>>, <<Tag_OID, 0>>}

NoTime == [is_utc_time |-> FALSE, year |-> 0, month |-> 0, day_of_month |-> 0,
           hours |-> 0, minutes |-> 0, seconds |-> 0]

InitTime ==
    /\ fn = "time_choice"
    /\ input \in TimeInputs
    /\ overflow_checks = TRUE
    /\ call = NoCall
    /\ pos = 0
    /\ pc = "start"
    /\ result = NoResult
    /\ view = <<>>
    /\ vpos = 0
    /\ stack = <<>>
    /\ oid_string = <<>>
    /\ tm = NoTime
    /\ full_name = <<>>
    /\ alt_names = <<>>

TimeFramed(value, is_utc_time) ==
    /\ pos' = value.rd.i
    /\ tm' = [tm EXCEPT !.is_utc_time = is_utc_time]
    /\ IF value.ok
       THEN view' = value.val /\ pc' = "year" /\ result' = result
       ELSE view' = view /\ pc' = "done" /\ result' = Err(BadDER)

\* The tag is chosen by peeking, and nested(input, expected_tag,
\* Error::BadDER, ..) frames the value.
TimeFrame ==
    /\ fn = "time_choice"
    /\ pc = "start"
    /\ TimeFramed(expect_tag_and_get_value(
                      [inp |-> input, i |-> pos],
                      IF peek([inp |-> input, i |-> pos], Tag_UTCTime)
                      THEN Tag_UTCTime ELSE Tag_GeneralizedTime),
                  peek([inp |-> input, i |-> pos], Tag_UTCTime))
    /\ UNCHANGED <<fn, input, overflow_checks, call, vpos, stack, oid_string,
                   full_name, alt_names>>

\* One field read inside the closure: kept and on to `next`, or the
\* closure's Err(BadDERTime), which read_all hands on as it is.
TimeRead(r, field, next) ==
    /\ vpos' = r.rd.i
    /\ IF r.ok
       THEN tm' = [tm EXCEPT ![field] = r.v] /\ pc' = next /\ result' = result
       ELSE tm' = tm /\ pc' = "done" /\ result' = Err(BadDERTime)
    /\ UNCHANGED <<fn, input, pos, overflow_checks, call, view, stack,
                   oid_string, full_name, alt_names>>

TimeYear ==
    /\ fn = "time_choice"
    /\ pc = "year"
    /\ TimeRead(read_year([inp |-> view, i |-> vpos], tm.is_utc_time), "year", "month")

TimeMonth ==
    /\ fn = "time_choice"
    /\ pc = "month"
    /\ TimeRead(read_two_digits([inp |-> view, i |-> vpos], 1, 12), "month", "day")

TimeDay ==
    /\ fn = "time_choice"
    /\ pc = "day"
    /\ TimeRead(read_two_digits([inp |-> view, i |-> vpos], 1,
                                days_in_month(tm.year, tm.month)),
                "day_of_month", "hours")

TimeHours ==
    /\ fn = "time_choice"
    /\ pc = "hours"
    /\ TimeRead(read_two_digits([inp |-> view, i |-> vpos], 0, 23), "hours", "minutes")

TimeMinutes ==
    /\ fn = "time_choice"
    /\ pc = "minutes"
    /\ TimeRead(read_two_digits([inp |-> view, i |-> vpos], 0, 59), "minutes", "seconds")

TimeSeconds ==
    /\ fn = "time_choice"
    /\ pc = "seconds"
    /\ TimeRead(read_two_digits([inp |-> view, i |-> vpos], 0, 59), "seconds", "zone")

TimeZoneRead(b) ==
    /\ vpos' = b.rd.i
    /\ IF b.ok /\ b.b = Char_Z
       THEN pc' = "calendar" /\ result' = result
       ELSE pc' = "done" /\ result' = Err(BadDERTime)

\* let time_zone = value.read_byte()...; if time_zone != b'Z' { ... }
TimeZone ==
    /\ fn = "time_choice"
    /\ pc = "zone"
    /\ TimeZoneRead(read_byte([inp |-> view, i |-> vpos]))
    /\ UNCHANGED <<fn, input, pos, overflow_checks, call, view, stack,
                   oid_string, tm, full_name, alt_names>>

\* read_all: the closure's result, or Err(BadDER) if bytes follow the 'Z'.
TimeReturn(t) ==
    result' = IF t.kind = "Ok" /\ ~at_end([inp |-> view, i |-> vpos])
              THEN Err(BadDER) ELSE t

TimeFinish ==
    /\ fn = "time_choice"
    /\ pc = "calendar"
    /\ TimeReturn(time_from_ymdhms_utc(tm.year, tm.month, tm.day_of_month,
                                       tm.hours, tm.minutes, tm.seconds))
    /\ pc' = "done"
    /\ UNCHANGED <<fn, input, pos, overflow_checks, call, view, vpos, stack,
                   oid_string, tm, full_name, alt_names>>

NextTime ==
    \/ TimeFrame \/ TimeYear \/ TimeMonth \/ TimeDay \/ TimeHours
    \/ TimeMinutes \/ TimeSeconds \/ TimeZone \/ TimeFinish

SpecTime == InitTime /\ [][NextTime]_vars

(***************************************************************************)
(* C5, C6, C7                                                              *)
(***************************************************************************)
\* The caller's buffer starts with a UTCTime or GeneralizedTime element whose
\* value is all there; the value, and its fields read as decimal digits.
Tc_Framed ==
    /\ Len(input) >= 2
    /\ input[1] \in {Tag_UTCTime, Tag_GeneralizedTime}
    /\ input[2] < 128
    /\ Len(input) >= 2 + input[2]

Tc_Value == SubSeq(input, 3, 2 + input[2])
Tc_YearDigits == IF input[1] = Tag_UTCTime THEN 2 ELSE 4
Tc_Num(k) == (Tc_Value[k] - 48) * 10 + (Tc_Value[k + 1] - 48)

Tc_AllDigits ==
    /\ Len(Tc_Value) >= Tc_YearDigits + 10
    /\ \A k \in 1..(Tc_YearDigits + 10) : Tc_Value[k] \in 48..57

Tc_Year ==
    IF input[1] = Tag_UTCTime
    THEN (IF Tc_Num(1) >= 50 THEN 1900 + Tc_Num(1) ELSE 2000 + Tc_Num(1))
    ELSE Tc_Num(1) * 100 + Tc_Num(3)

Tc_Month == Tc_Num(Tc_YearDigits + 1)
Tc_Day == Tc_Num(Tc_YearDigits + 3)
Tc_Hours == Tc_Num(Tc_YearDigits + 5)
Tc_Minutes == Tc_Num(Tc_YearDigits + 7)
Tc_Seconds == Tc_Num(Tc_YearDigits + 9)

Tc_EndsWithZ ==
    /\ Len(Tc_Value) = Tc_YearDigits + 11
    /\ Tc_Value[Tc_YearDigits + 11] = Char_Z

\* C5: time_choice accepts a day of month d only when 1 <= d <=
\* days_in_month(year, month), the year being the four digits of a
\* GeneralizedTime or 1900+yy (yy >= 50) / 2000+yy (yy < 50) of a UTCTime;
\* 29 February is accepted for 2000 and is BadDERTime for 2001; a month
\* outside 1-12, an hour above 23, a minute or second above 59 is BadDERTime.
C5_DayOfMonthRange ==
    (fn = "time_choice" /\ pc = "done" /\ Tc_Framed) =>
        /\ result.kind = "Ok" =>
               /\ Tc_AllDigits
               /\ Tc_Month \in 1..12
               /\ Tc_Day \in 1..days_in_month(Tc_Year, Tc_Month)
               /\ result.val.year = Tc_Year
               /\ result.val.day_of_month = Tc_Day
        /\ (/\ Tc_AllDigits
            /\ \/ Tc_Month \notin 1..12
               \/ Tc_Day \notin 1..days_in_month(Tc_Year, Tc_Month)
               \/ Tc_Hours > 23
               \/ Tc_Minutes > 59
               \/ Tc_Seconds > 59) => result = Err(BadDERTime)
        /\ (Tc_AllDigits /\ Tc_Month = 2 /\ Tc_Day = 29 /\ Tc_Year = 2001) =>
               result = Err(BadDERTime)
        /\ (/\ Tc_AllDigits /\ Tc_Month = 2 /\ Tc_Day = 29 /\ Tc_Year = 2000
            /\ Tc_Hours <= 23 /\ Tc_Minutes <= 59 /\ Tc_Seconds <= 59
            /\ Tc_EndsWithZ) => result.kind = "Ok"

C5_Witness ==
    /\ fn = "time_choice"
    /\ pc = "done"
    /\ Tc_Framed
    /\ input[1] = Tag_UTCTime
    /\ Tc_AllDigits
    /\ Tc_Year = 2000 /\ Tc_Month = 2 /\ Tc_Day = 29
    /\ result.kind = "Ok"
    /\ result.val.year = 2000

\* C6: for a correctly framed UTCTime or GeneralizedTime, a byte outside
\* '0'..'9' in a digit slot, or a missing or different byte where the 'Z'
\* belongs, makes time_choice return BadDERTime.
C6_NonDigitOrNoZ ==
    (/\ fn = "time_choice" /\ pc = "done" /\ Tc_Framed
     /\ \/ Len(Tc_Value) < Tc_YearDigits + 11
        \/ \E k \in 1..(Tc_YearDigits + 10) : Tc_Value[k] \notin 48..57
        \/ Tc_Value[Tc_YearDigits + 11] # Char_Z) =>
        result = Err(BadDERTime)

C6_Witness ==
    /\ fn = "time_choice"
    /\ pc = "done"
    /\ Tc_Framed
    /\ Len(Tc_Value) >= Tc_YearDigits + 11
    /\ Tc_Value[2] = 58
    /\ \A k \in 3..(Tc_YearDigits + 10) : Tc_Value[k] \in 48..57
    /\ Tc_Value[Tc_YearDigits + 11] = Char_Z
    /\ result = Err(BadDERTime)

\* C7: when the next element's tag is neither UTCTime nor GeneralizedTime,
\* the error time_choice returns is BadDERTime.
C7_WrongTagIsTimeError ==
    (/\ fn = "time_choice" /\ pc = "done"
     /\ Len(input) >= 1 /\ input[1] \notin {Tag_UTCTime, Tag_GeneralizedTime}) =>
        result = Err(BadDERTime)

(***************************************************************************)
(* parse_name, one RDN at a time                                           *)
(***************************************************************************)
MaxRdns == 2

Rdn(oid, value) ==
    Tlv(Tag_Set, Tlv(Tag_Sequence, Tlv(Tag_OID, oid) \o Tlv(Tag_PrintableString, value)))

NameOids ==
    {<<85, 4, 3>>, <<85, 4, 6>>, <<85, 4, 7>>, <<85, 4, 8>>, <<85, 4, 10>>,
     <<85, 4, 11>>, <<85, 4, 4>>, <<42, 3>>, <<85, 4, 128, 3>>,
     <<85, 4, 129, 128, 128, 128, 128, 128, 128, 128, 128, 128, 3>>}

NameValues == {<<97>>, <<98>>}

Rdns == {Rdn(o, v) : o \in NameOids, v \in NameValues}

RECURSIVE Concat(_)
Concat(q) == IF q = <<>> THEN <<>> ELSE Head(q) \o Concat(Tail(q))

NameTails ==
    {<<>>, <<0>>, <<Tag_Set>>, Rdn(<<85, 4, 3>>, <<255>>), Rdn(<<85, 4, 3, 128>>, <<97>>),
     Tlv(Tag_Set, Tlv(Tag_Sequence, Tlv(Tag_OID, <<85, 4, 3>>))),
     Tlv(Tag_Set, Tlv(Tag_Sequence, Tlv(Tag_OID, <<85, 4, 3>>)
                                    \o Tlv(Tag_PrintableString, <<97>>) \o <<0>>))}

NameInputs == {Concat(q) \o t : q \in Seqs(Rdns, MaxRdns), t \in NameTails}

InitName ==
    /\ fn = "parse_name"
    /\ input \in NameInputs
    /\ overflow_checks \in BOOLEAN
    /\ call = NoCall
    /\ pos = 0
    /\ pc = "loop"
    /\ result = NoResult
    /\ view = <<>>
    /\ vpos = 0
    /\ stack = <<>>
    /\ oid_string = <<>>
    /\ tm = <<>>
    /\ full_name = NoName
    /\ alt_names = <<>>

NameRead(r) ==
    /\ pos' = r.rd.i
    /\ IF r.res.kind = "Ok"
       THEN /\ full_name' = set_name(full_name, r.res.val.id, r.res.val.name)
            /\ pc' = "loop"
            /\ result' = result
       ELSE IF r.res.kind = "Panic"
       THEN full_name' = full_name /\ pc' = "done" /\ result' = Panic
       ELSE full_name' = full_name /\ pc' = "end" /\ result' = result

\* while let Ok((id, name)) = parse_one_name(input) { match ... }
NameLoop ==
    /\ fn = "parse_name"
    /\ pc = "loop"
    /\ \E r \in {parse_one_name([inp |-> input, i |-> pos], overflow_checks)} :
            NameRead(r)
    /\ UNCHANGED <<fn, input, overflow_checks, call, view, vpos, stack,
                   oid_string, tm, alt_names>>

\* Ok(full_name)
NameFinish ==
    /\ fn = "parse_name"
    /\ pc = "end"
    /\ result' = Ok(full_name)
    /\ pc' = "done"
    /\ UNCHANGED <<fn, input, pos, overflow_checks, call, view, vpos, stack,
                   oid_string, tm, full_name, alt_names>>

NextName == NameLoop \/ NameFinish

SpecName == InitName /\ [][NextName]_vars

(***************************************************************************)
(* C8                                                                      *)
(***************************************************************************)
\* A well-formed RDN starts at byte k of inp: a Set holding one Sequence of
\* an OID whose last byte ends a varint and an ASCII PrintableString, every
\* length in the short form.
C8_OidLen(inp, k) == inp[k + 5]
C8_ValueLen(inp, k) == inp[k + 7 + C8_OidLen(inp, k)]

C8_RdnAt(inp, k) ==
    /\ k + 5 <= Len(inp)
    /\ inp[k] = Tag_Set /\ inp[k + 1] < 128
    /\ inp[k + 2] = Tag_Sequence /\ inp[k + 3] = inp[k + 1] - 2
    /\ inp[k + 4] = Tag_OID /\ C8_OidLen(inp, k) \in 1..127
    /\ k + 7 + C8_OidLen(inp, k) <= Len(inp)
    /\ inp[k + 5 + C8_OidLen(inp, k)] < 128
    /\ inp[k + 6 + C8_OidLen(inp, k)] = Tag_PrintableString
    /\ C8_ValueLen(inp, k) < 128
    /\ inp[k + 3] = C8_OidLen(inp, k) + C8_ValueLen(inp, k) + 4
    /\ k + 7 + C8_OidLen(inp, k) + C8_ValueLen(inp, k) <= Len(inp)
    /\ \A j \in 1..C8_ValueLen(inp, k) : inp[k + 7 + C8_OidLen(inp, k) + j] < 128

C8_OidPayload(inp, k) == SubSeq(inp, k + 6, k + 5 + C8_OidLen(inp, k))

C8_OidString(payload) ==
    to_string(payload[1] \div 40) \o <<".">> \o to_string(payload[1] % 40)
    \o C4_Dotted(C4_Arcs(payload, 2, <<>>), 1)

C8_Value(inp, k) ==
    SubSeq(inp, k + 8 + C8_OidLen(inp, k),
           k + 7 + C8_OidLen(inp, k) + C8_ValueLen(inp, k))

\* The input from byte k on is a sequence of well-formed RDNs and no more.
RECURSIVE C8_WellFormed(_, _)
C8_WellFormed(inp, k) ==
    IF k > Len(inp) THEN TRUE
    ELSE C8_RdnAt(inp, k) /\ C8_WellFormed(inp, k + 2 + inp[k + 1])

\* Its RDNs in order, each with its OID in dotted form and its value.
RECURSIVE C8_Rdns(_, _)
C8_Rdns(inp, k) ==
    IF k > Len(inp) THEN <<>>
    ELSE <<[oid |-> C8_OidString(C8_OidPayload(inp, k)), value |-> C8_Value(inp, k)]>>
         \o C8_Rdns(inp, k + 2 + inp[k + 1])

C8_Canonical ==
    {Oid_common_name, Oid_country_name, Oid_locality_name,
     Oid_state_or_province_name, Oid_organization_name,
     Oid_organizational_unit_name}

C8_Max(S) == CHOOSE m \in S : \A n \in S : n <= m

\* The value of the last RDN with this OID, absent if there is none.
C8_Field(rdns, oid) ==
    LET S == {i \in 1..Len(rdns) : rdns[i].oid = oid}
    IN  IF S = {} THEN None ELSE Some(rdns[C8_Max(S)].value)

\* The OID of the last RDN whose OID is none of the six.
C8_Extra(rdns) ==
    LET S == {i \in 1..Len(rdns) : rdns[i].oid \notin C8_Canonical}
    IN  IF S = {} THEN None ELSE Some(rdns[C8_Max(S)].oid)

C8_Name(rdns) ==
    [common_name |-> C8_Field(rdns, Oid_common_name),
     country_name |-> C8_Field(rdns, Oid_country_name),
     locality_name |-> C8_Field(rdns, Oid_locality_name),
     state_or_province_name |-> C8_Field(rdns, Oid_state_or_province_name),
     organization_name |-> C8_Field(rdns, Oid_organization_name),
     organizational_unit_name |-> C8_Field(rdns, Oid_organizational_unit_name),
     extra |-> C8_Extra(rdns)]

\* C8: after a sequence of well-formed RDNs each canonical field holds the
\* value of the last RDN whose OID is its own and is absent if there is none,
\* and extra holds the OID string of the last RDN with an unrecognized OID.
C8_FieldsByOwnOid ==
    (fn = "parse_name" /\ pc = "done" /\ C8_WellFormed(input, 1)) =>
        result = Ok(C8_Name(C8_Rdns(input, 1)))

\* The same for the RDNs whose OID arcs all fit a u64.
C8_ArcsFit(inp, k) ==
    \A a \in 1..Len(C4_Arcs(C8_OidPayload(inp, k), 2, <<>>)) :
        Fits64(C4_Arcs(C8_OidPayload(inp, k), 2, <<>>)[a])

RECURSIVE C8_AllArcsFit(_, _)
C8_AllArcsFit(inp, k) ==
    IF k > Len(inp) THEN TRUE
    ELSE C8_ArcsFit(inp, k) /\ C8_AllArcsFit(inp, k + 2 + inp[k + 1])

C8_FieldsByOwnOidWithin64 ==
    (fn = "parse_name" /\ pc = "done" /\ C8_WellFormed(input, 1)
     /\ C8_AllArcsFit(input, 1)) =>
        result = Ok(C8_Name(C8_Rdns(input, 1)))

\* An unrecognized RDN after a recognized one and an unrecognized one.
C8_Within64Reached ==
    /\ fn = "parse_name" /\ pc = "done" /\ C8_WellFormed(input, 1)
    /\ C8_AllArcsFit(input, 1)
    /\ Len(C8_Rdns(input, 1)) = MaxRdns
    /\ result.kind = "Ok" /\ result.val.extra.some /\ result.val.common_name.some

(***************************************************************************)
(* parse_alt_name, one element at a time                                   *)
(***************************************************************************)
MaxAltNames == 2

AltElements ==
    {Tlv(tag, v) : tag \in {130, Tag_PrintableString},
                   v \in {<<>>, <<97>>, <<195, 169>>, <<255>>, <<97, 128>>}}

AltTails ==
    {<<>>, <<130>>, <<130, 5, 97>>, <<130, 129, 1, 97>>, <<130, 130, 1>>,
     <<31, 0>>, <<130, 128>>}

AltInputs == {Concat(q) \o t : q \in Seqs(AltElements, MaxAltNames), t \in AltTails}

InitAlt ==
    /\ fn = "parse_alt_name"
    /\ input \in AltInputs
    /\ overflow_checks = TRUE
    /\ call = NoCall
    /\ pos = 0
    /\ pc = "loop"
    /\ result = NoResult
    /\ Idle

AltElement(e) ==
    IF e.kind = "push"
    THEN alt_names' = Append(alt_names, e.name) /\ pc' = "loop" /\ result' = result
    ELSE IF e.kind = "err"
    THEN alt_names' = alt_names /\ pc' = "done" /\ result' = Err(BadDER)
    ELSE alt_names' = alt_names /\ pc' = "end" /\ result' = result

\* while let Ok((_, name)) = read_tag_and_get_value(input)... { ... }
AltLoop ==
    /\ fn = "parse_alt_name"
    /\ pc = "loop"
    /\ \E f \in {read_tag_and_get_value([inp |-> input, i |-> pos])} :
            /\ pos' = f.rd.i
            /\ AltElement(alt_element(f))
    /\ UNCHANGED <<fn, input, overflow_checks, call, view, vpos, stack,
                   oid_string, tm, full_name>>

\* Ok(alt_names)
AltFinish ==
    /\ fn = "parse_alt_name"
    /\ pc = "end"
    /\ result' = Ok(alt_names)
    /\ pc' = "done"
    /\ UNCHANGED <<fn, input, pos, overflow_checks, call, view, vpos, stack,
                   oid_string, tm, full_name, alt_names>>

NextAlt == AltLoop \/ AltFinish

SpecAlt == InitAlt /\ [][NextAlt]_vars

(***************************************************************************)
(* C9                                                                      *)
(***************************************************************************)
\* A complete element starts at byte k of inp (short-form length).
C9_Complete(inp, k) ==
    /\ k + 1 <= Len(inp)
    /\ inp[k] % 32 # 31
    /\ inp[k + 1] < 128
    /\ k + 1 + inp[k + 1] <= Len(inp)

\* The first byte after the leading complete elements.
RECURSIVE C9_Rest(_, _)
C9_Rest(inp, k) ==
    IF C9_Complete(inp, k) THEN C9_Rest(inp, k + 2 + inp[k + 1]) ELSE k

\* The values of the leading complete elements.
RECURSIVE C9_Values(_, _)
C9_Values(inp, k) ==
    IF C9_Complete(inp, k)
    THEN <<SubSeq(inp, k + 2, k + 1 + inp[k + 1])>> \o C9_Values(inp, k + 2 + inp[k + 1])
    ELSE <<>>

\* What remains at byte k is a tag with no length, with a malformed or cut
\* length, or with a length that declares more bytes than remain.
C9_Truncated(inp, k) ==
    /\ k <= Len(inp)
    /\ inp[k] % 32 # 31
    /\ \/ k = Len(inp)
       \/ k < Len(inp) /\ inp[k + 1] < 128 /\ k + 1 + inp[k + 1] > Len(inp)
       \/ k < Len(inp) /\ inp[k + 1] = 129
          /\ (k + 2 > Len(inp) \/ inp[k + 2] < 128 \/ k + 2 + inp[k + 2] > Len(inp))
       \/ k < Len(inp) /\ inp[k + 1] = 130
          /\ (k + 3 > Len(inp) \/ inp[k + 2] = 0
              \/ k + 3 + inp[k + 2] * 256 + inp[k + 3] > Len(inp))
       \/ k < Len(inp) /\ inp[k + 1] = 128
       \/ k < Len(inp) /\ inp[k + 1] > 130

\* C9 as stated: when a truncated element follows zero or more complete
\* elements, parse_alt_name returns BadDER.
C9_TruncatedIsBadDER ==
    (fn = "parse_alt_name" /\ pc = "done" /\ C9_Truncated(input, C9_Rest(input, 1))) =>
        result = Err(BadDER)

\* C9, amended: a truncated element ends the loop and parse_alt_name returns
\* Ok with the values of the complete elements before it, in order; it returns
\* BadDER only if one of those values is not UTF-8.
C9_TruncatedEndsList ==
    (fn = "parse_alt_name" /\ pc = "done" /\ C9_Truncated(input, C9_Rest(input, 1))) =>
        result = IF \A i \in 1..Len(C9_Values(input, 1)) :
                        utf8_valid(C9_Values(input, 1)[i], 1)
                 THEN Ok(C9_Values(input, 1))
                 ELSE Err(BadDER)

C9_Witness ==
    /\ fn = "parse_alt_name" /\ pc = "done"
    /\ C9_Truncated(input, C9_Rest(input, 1))
    /\ C9_Rest(input, 1) + 2 = Len(input)
    /\ result.kind = "Ok" /\ Len(result.val) = MaxAltNames

(***************************************************************************)
(* The four loops together, every enabled step taken                       *)
(***************************************************************************)
MaxLoopLen == 3
MaxLoopElements == 2

LoopCalls ==
    [tag : {Tag_Sequence}, inner_tag : {2}, error : {BadDER}, take : 0..1,
     ret : {"Ok", "Err"}, err : {BadDER}]

LoopOids ==
    {<<>>, <<42>>, <<42, 1>>, <<42, 134>>, <<42, 134, 1>>, <<85, 4, 3>>,
     <<42, 134, 134, 134, 134, 134, 134, 134, 134, 134, 1>>}

LoopRdns ==
    {Rdn(o, <<97>>) : o \in {<<85, 4, 3>>, <<42, 3>>,
         <<85, 4, 129, 128, 128, 128, 128, 128, 128, 128, 128, 128, 3>>}}

LoopAltElements == {Tlv(130, <<97>>), Tlv(130, <<255>>)}

LoopInputs(f) ==
    IF f = "nested_mut" THEN Seqs({Tag_Sequence, 0, 1}, MaxLoopLen)
    ELSE IF f = "nested_of_mut"
        THEN {Tlv(Tag_Sequence, b) \o t : b \in Seqs({2, 0}, MaxLoopLen + 1),
                                          t \in {<<>>, <<0>>}}
    ELSE IF f = "parse_oid" THEN {Tlv(Tag_OID, p) : p \in LoopOids}
    ELSE IF f = "parse_name"
        THEN {Concat(q) \o t : q \in Seqs(LoopRdns, MaxLoopElements),
                               t \in {<<>>, <<0>>}}
    ELSE {Concat(q) \o t : q \in Seqs(LoopAltElements, MaxLoopElements),
                           t \in {<<>>, <<130>>, <<130, 5, 97>>}}

InitLoops ==
    /\ fn \in {"nested_mut", "nested_of_mut", "parse_oid", "parse_name",
               "parse_alt_name"}
    /\ input \in LoopInputs(fn)
    /\ call \in (IF fn \in {"nested_mut", "nested_of_mut"} THEN LoopCalls ELSE {NoCall})
    /\ overflow_checks \in (IF fn \in {"parse_oid", "parse_name"} THEN BOOLEAN ELSE {TRUE})
    /\ pos = 0
    /\ pc = (IF fn \in {"parse_name", "parse_alt_name"} THEN "loop" ELSE "start")
    /\ result = NoResult
    /\ view = <<>>
    /\ vpos = 0
    /\ stack = <<>>
    /\ oid_string = <<>>
    /\ tm = <<>>
    /\ full_name = (IF fn = "parse_name" THEN NoName ELSE <<>>)
    /\ alt_names = <<>>

NextLoops == NextNested \/ NextOid \/ NextName \/ NextAlt

SpecLoops == InitLoops /\ [][NextLoops]_vars /\ WF_vars(NextLoops)

(***************************************************************************)
(* C10                                                                     *)
(***************************************************************************)
\* The cursor a loop reads from: the caller's reader in parse_name and
\* parse_alt_name, the reader over the framed value in the other two.
C10_Cursor == IF fn \in {"parse_name", "parse_alt_name"} THEN pos ELSE vpos
C10_CursorNext == IF fn \in {"parse_name", "parse_alt_name"} THEN pos' ELSE vpos'

\* One turn of a loop strictly advances the cursor or leaves the loop.
C10_LoopAdvances ==
    [][pc = "loop" => (C10_CursorNext > C10_Cursor \/ pc' # "loop")]_vars

\* No cursor moves backwards.
C10_Monotonic == [][pos' >= pos /\ (view' = view => vpos' >= vpos)]_vars

\* Every call ends, by returning or by panicking.
C10_Ends == <>(pc = "done")

\* C10: each turn of the loops of nested_of_mut, parse_oid, parse_name and
\* parse_alt_name advances the cursor or exits, no cursor moves backwards, and
\* each call eventually returns a value or an error.
C10_Terminates ==
    /\ [][pc = "loop" => (C10_CursorNext > C10_Cursor \/ pc' # "loop")]_vars
    /\ [][pos' >= pos /\ (view' = view => vpos' >= vpos)]_vars
    /\ <>(pc = "done" /\ result.kind \in {"Ok", "Err"})

====
